---- MODULE Spec2Model ----
\* Model of backend/main.py: the two-stage research pipeline (research_node,
\* writer_node, wired researcher -> writer -> END) and the server-sent-event
\* generator run_research.event_generator that streams its updates.
\*
\* One run of event_generator is a coroutine; its pc names the statement at
\* which it is suspended or about to execute.  Code between two suspension
\* points (await / yield) is executed atomically by the asyncio loop, so the
\* control decisions that follow a suspension are folded into the action that
\* resumes it.  Strings are the source's strings without their emoji prefix;
\* a line break inside a string is written " / ".
EXTENDS Integers, Sequences, FiniteSets, TLC

\* ---------------------------------------------------------------- bounds
NumRuns == 1
MaxResults == 1
MaxMerges == 2
ConcRuns == 2

Runs == 1..NumRuns
ConcSet == 1..ConcRuns
AllRuns == Runs \cup ConcSet
Topics == {"quantum computing", "llm agents"}
Titles == {"A"}
SearchErrs == {"timeout"}
GenTexts == {"", "## Report"}
GenErrs == {"rate limit"}
FaultMsgs == {"graph fault"}

NoErr == "<none>"

\* ---------------------------------------------------------------- state
VARIABLES
    search_tool,    \* module global: "None" or "Tavily"
    llm,            \* module global: "None" or "Groq"
    pc,             \* per run: position of event_generator
    state,          \* per run: the graph's cumulative AgentState
    node,           \* per run: the graph node that the next pull executes
    output,         \* per run: the update (value) being handled by the adapter
    idx,            \* per run: position of `for log in value["logs"]`
    events,         \* per run: the events yielded to the client so far
    err,            \* per run: the exception caught at `except Exception as e`
    search_err,     \* per run: the exception caught in research_node
    gen_err,        \* per run: the exception caught in writer_node
    search_calls,   \* per run: number of search_tool.invoke calls
    llm_calls,      \* per run: number of llm.ainvoke calls
    hung,           \* per run: the pending capability call never returns
    yielded,        \* per run: the node names of the updates astream yielded
    writer_state,   \* per run: the state passed to writer_node
    prompt          \* per run: the prompt handed to llm.ainvoke

vars == <<search_tool, llm, pc, state, node, output, idx, events, err,
          search_err, gen_err, search_calls, llm_calls, hung, yielded,
          writer_state, prompt>>

\* ---------------------------------------------------------------- data
Inputs(t) == [topic |-> t, logs |-> <<>>, search_data |-> "", final_report |-> ""]

NoUpdate == [logs |-> <<>>]

\* Mutant: a field the update does not carry is reset to its default.
Merge_DropAbsent(s, u) ==
    [k \in DOMAIN s |->
        IF k \in DOMAIN u
        THEN IF k = "logs" THEN s[k] \o u[k] ELSE u[k]
        ELSE IF k = "logs" THEN <<>> ELSE ""]

\* Mutant: logs without its operator.add reducer, replaced like any field.
Merge_ReplaceLogs(s, u) ==
    [k \in DOMAIN s |-> IF k \in DOMAIN u THEN u[k] ELSE s[k]]

\* operator.add on the annotated field, replacement of the other fields the
\* update carries, every absent field kept.
Merge(s, u) ==
    [k \in DOMAIN s |->
        IF k \in DOMAIN u
        THEN IF k = "logs" THEN s[k] \o u[k] ELSE u[k]
        ELSE s[k]]

\* Mutant: the researcher is wired straight to END.
Successor_SkipWriter(n) == "END"

Successor(n) == IF n = "researcher" THEN "writer" ELSE "END"

LogEvent(c) == [type |-> "log", content |-> c]
ReportEvent(c) == [type |-> "report", content |-> c]
DoneEvent == [type |-> "[DONE]", content |-> ""]

CountType(ev, t) == Cardinality({i \in 1..Len(ev) : ev[i].type = t})

\* json.dumps of the result list: one object per record, in list order.
RECURSIVE DumpRecords(_)
DumpRecords(res) ==
    IF Len(res) = 0 THEN ""
    ELSE "{\"title\": \"" \o Head(res) \o "\"}"
         \o (IF Len(res) > 1 THEN ", " ELSE "") \o DumpRecords(Tail(res))

JsonDumps(res) == "[" \o DumpRecords(res) \o "]"

RECURSIVE SeqsUpTo(_, _)
SeqsUpTo(S, n) ==
    IF n = 0 THEN {<<>>}
    ELSE SeqsUpTo(S, n - 1) \cup
         {Append(s, x) : s \in {q \in SeqsUpTo(S, n - 1) : Len(q) = n - 1}, x \in S}

SearchResults == SeqsUpTo(Titles, MaxResults)

\* ---------------------------------------------------------------- research_node
SearchUnavailableLog == "Error: Search tool not initialized (check TAVILY_API_KEY)"
SearchUnavailableData == "No search data (tool failure)"
ResearchLogStart(t) == "Researcher: Searching Tavily for '" \o t \o "'..."
ResearchLogEnd == "Researcher: Latest data retrieved."

ResearchUnavailable ==
    [logs |-> <<SearchUnavailableLog>>, search_data |-> SearchUnavailableData]

ResearchSuccess(t, res) ==
    [logs |-> <<ResearchLogStart(t), ResearchLogEnd>>, search_data |-> JsonDumps(res)]

\* Mutant: the failure detail is left out of search_data.
ResearchFailure_NoDetail(m) ==
    [logs |-> <<"Search Error: " \o m, ResearchLogEnd>>,
     search_data |-> "Search Failed: "]

ResearchFailure(m) ==
    [logs |-> <<"Search Error: " \o m, ResearchLogEnd>>,
     search_data |-> "Search Failed: " \o m]

\* ---------------------------------------------------------------- writer_node
LlmUnavailableLog == "Fatal Error: LLM is not running"
LlmUnavailableReport ==
    "## System Error / Cannot generate report because LLM initialization failed. / Please check backend console logs to confirm GROQ_API_KEY is set correctly."
WriterLogStart == "Writer: Llama 3.3 is drafting the report..."
WriterLogEnd == "Writer: Report generated."

Prompt(t, sd) ==
    "You are a senior technical analyst. Please write a briefing on \"" \o t
    \o "\" based on the provided online search results. [Search Result Data]: "
    \o sd \o " [Requirements]: 1. Use Markdown format. ..."

WriterUnavailable ==
    [logs |-> <<LlmUnavailableLog>>, final_report |-> LlmUnavailableReport]

WriterSuccess(text) ==
    [logs |-> <<WriterLogStart, WriterLogEnd>>, final_report |-> text]

WriterFailure(m) ==
    [logs |-> <<WriterLogStart, WriterLogEnd>>, final_report |-> "LLM Call Failed: " \o m]

\* ---------------------------------------------------------------- adapter control
\* Mutant: the presence of the key decides, not the truth of its value.
HasReport_KeyOnly(v) == "final_report" \in DOMAIN v

HasReport(v) == "final_report" \in DOMAIN v /\ v["final_report"] # ""

\* Mutant: the report branch is never taken.
AfterLogs_NoReport(v) == "astream"

AfterLogs(v) == IF HasReport(v) THEN "yield_report" ELSE "astream"

HasLogs(v) == "logs" \in DOMAIN v /\ Len(v["logs"]) > 0

\* astream merges the node's update, yields {name: upd}, and the adapter
\* starts handling it.
Deliver(r, name, upd) ==
    /\ state' = [state EXCEPT ![r] = Merge(@, upd)]
    /\ yielded' = [yielded EXCEPT ![r] = Append(@, name)]
    /\ node' = [node EXCEPT ![r] = Successor(name)]
    /\ output' = [output EXCEPT ![r] = upd]
    /\ idx' = [idx EXCEPT ![r] = 1]
    /\ pc' = [pc EXCEPT ![r] = IF HasLogs(upd) THEN "yield_log" ELSE AfterLogs(upd)]

\* Mutant: the graph's entry point is set to the writer.
Init_WriterFirst ==
    /\ search_tool \in {"None", "Tavily"}
    /\ llm \in {"None", "Groq"}
    /\ pc = [r \in AllRuns |-> "idle"]
    /\ state = [r \in AllRuns |-> Inputs("")]
    /\ node = [r \in AllRuns |-> "writer"]
    /\ output = [r \in AllRuns |-> NoUpdate]
    /\ idx = [r \in AllRuns |-> 1]
    /\ events = [r \in AllRuns |-> <<>>]
    /\ err = [r \in AllRuns |-> NoErr]
    /\ search_err = [r \in AllRuns |-> NoErr]
    /\ gen_err = [r \in AllRuns |-> NoErr]
    /\ search_calls = [r \in AllRuns |-> 0]
    /\ llm_calls = [r \in AllRuns |-> 0]
    /\ hung = [r \in AllRuns |-> FALSE]
    /\ yielded = [r \in AllRuns |-> <<>>]
    /\ writer_state = [r \in AllRuns |-> Inputs("")]
    /\ prompt = [r \in AllRuns |-> ""]

\* ---------------------------------------------------------------- Init
Init ==
    /\ search_tool \in {"None", "Tavily"}
    /\ llm \in {"None", "Groq"}
    /\ pc = [r \in AllRuns |-> "idle"]
    /\ state = [r \in AllRuns |-> Inputs("")]
    /\ node = [r \in AllRuns |-> "researcher"]
    /\ output = [r \in AllRuns |-> NoUpdate]
    /\ idx = [r \in AllRuns |-> 1]
    /\ events = [r \in AllRuns |-> <<>>]
    /\ err = [r \in AllRuns |-> NoErr]
    /\ search_err = [r \in AllRuns |-> NoErr]
    /\ gen_err = [r \in AllRuns |-> NoErr]
    /\ search_calls = [r \in AllRuns |-> 0]
    /\ llm_calls = [r \in AllRuns |-> 0]
    /\ hung = [r \in AllRuns |-> FALSE]
    /\ yielded = [r \in AllRuns |-> <<>>]
    /\ writer_state = [r \in AllRuns |-> Inputs("")]
    /\ prompt = [r \in AllRuns |-> ""]

\* ---------------------------------------------------------------- actions
\* GET /api/run-research?topic=t: event_generator builds inputs and reaches
\* its first pull of app_graph.astream(inputs).
Request(r, t) ==
    /\ pc[r] = "idle"
    /\ state' = [state EXCEPT ![r] = Inputs(t)]
    /\ pc' = [pc EXCEPT ![r] = "astream"]
    /\ UNCHANGED <<search_tool, llm, node, output, idx, events, err, search_err,
                   gen_err, search_calls, llm_calls, hung, yielded, writer_state, prompt>>

\* Mutant: research_node without its `if not search_tool` guard.
ResearchStart_NoGuard(r) ==
    /\ pc[r] = "astream" /\ node[r] = "researcher"
    /\ search_calls' = [search_calls EXCEPT ![r] = @ + 1]
    /\ pc' = [pc EXCEPT ![r] = "search_call"]
    /\ UNCHANGED <<state, yielded, node, output, idx>>
    /\ UNCHANGED <<search_tool, llm, events, err, search_err, gen_err, llm_calls,
                   hung, writer_state, prompt>>

\* The pull runs research_node up to its return or its await.
ResearchStart(r) ==
    /\ pc[r] = "astream" /\ node[r] = "researcher"
    /\ IF search_tool = "None"
       THEN /\ Deliver(r, "researcher", ResearchUnavailable)
            /\ UNCHANGED search_calls
       ELSE /\ search_calls' = [search_calls EXCEPT ![r] = @ + 1]
            /\ pc' = [pc EXCEPT ![r] = "search_call"]
            /\ UNCHANGED <<state, yielded, node, output, idx>>
    /\ UNCHANGED <<search_tool, llm, events, err, search_err, gen_err, llm_calls,
                   hung, writer_state, prompt>>

SearchReturn(r, res) ==
    /\ pc[r] = "search_call" /\ ~hung[r]
    /\ Deliver(r, "researcher", ResearchSuccess(state[r].topic, res))
    /\ UNCHANGED <<search_tool, llm, events, err, search_err, gen_err, search_calls,
                   llm_calls, hung, writer_state, prompt>>

\* Mutant: research_node without its try/except.
SearchRaise_Escapes(r, m) ==
    /\ pc[r] = "search_call" /\ ~hung[r]
    /\ search_err' = [search_err EXCEPT ![r] = m]
    /\ err' = [err EXCEPT ![r] = m]
    /\ pc' = [pc EXCEPT ![r] = "yield_error"]
    /\ UNCHANGED <<search_tool, llm, state, node, output, idx, events, gen_err,
                   search_calls, llm_calls, hung, yielded, writer_state, prompt>>

SearchRaise(r, m) ==
    /\ pc[r] = "search_call" /\ ~hung[r]
    /\ search_err' = [search_err EXCEPT ![r] = m]
    /\ Deliver(r, "researcher", ResearchFailure(m))
    /\ UNCHANGED <<search_tool, llm, events, err, gen_err, search_calls,
                   llm_calls, hung, writer_state, prompt>>

\* Mutant: the run state is one module-level object, held by the first run.
WriterStart_SharedState(r) ==
    /\ pc[r] = "astream" /\ node[r] = "writer"
    /\ writer_state' = [writer_state EXCEPT ![r] = state[1]]
    /\ IF llm = "None"
       THEN /\ Deliver(r, "writer", WriterUnavailable)
            /\ UNCHANGED <<llm_calls, prompt>>
       ELSE /\ prompt' = [prompt EXCEPT ![r] = Prompt(state[1].topic, state[1].search_data)]
            /\ llm_calls' = [llm_calls EXCEPT ![r] = @ + 1]
            /\ pc' = [pc EXCEPT ![r] = "gen_call"]
            /\ UNCHANGED <<state, yielded, node, output, idx>>
    /\ UNCHANGED <<search_tool, llm, events, err, search_err, gen_err, search_calls, hung>>

\* Mutant: writer_node without its `if not llm` guard.
WriterStart_NoGuard(r) ==
    /\ pc[r] = "astream" /\ node[r] = "writer"
    /\ writer_state' = [writer_state EXCEPT ![r] = state[r]]
    /\ prompt' = [prompt EXCEPT ![r] = Prompt(state[r].topic, state[r].search_data)]
    /\ llm_calls' = [llm_calls EXCEPT ![r] = @ + 1]
    /\ pc' = [pc EXCEPT ![r] = "gen_call"]
    /\ UNCHANGED <<state, yielded, node, output, idx>>
    /\ UNCHANGED <<search_tool, llm, events, err, search_err, gen_err, search_calls, hung>>

\* The pull runs writer_node on the merged state up to its return or its await.
WriterStart(r) ==
    /\ pc[r] = "astream" /\ node[r] = "writer"
    /\ writer_state' = [writer_state EXCEPT ![r] = state[r]]
    /\ IF llm = "None"
       THEN /\ Deliver(r, "writer", WriterUnavailable)
            /\ UNCHANGED <<llm_calls, prompt>>
       ELSE /\ prompt' = [prompt EXCEPT ![r] = Prompt(state[r].topic, state[r].search_data)]
            /\ llm_calls' = [llm_calls EXCEPT ![r] = @ + 1]
            /\ pc' = [pc EXCEPT ![r] = "gen_call"]
            /\ UNCHANGED <<state, yielded, node, output, idx>>
    /\ UNCHANGED <<search_tool, llm, events, err, search_err, gen_err, search_calls, hung>>

GenReturn(r, text) ==
    /\ pc[r] = "gen_call" /\ ~hung[r]
    /\ Deliver(r, "writer", WriterSuccess(text))
    /\ UNCHANGED <<search_tool, llm, events, err, search_err, gen_err, search_calls,
                   llm_calls, hung, writer_state, prompt>>

\* Mutant: a failed generation call is tried once more.
GenRaise_Retry(r, m) ==
    /\ pc[r] = "gen_call" /\ ~hung[r]
    /\ IF llm_calls[r] < 2
       THEN /\ llm_calls' = [llm_calls EXCEPT ![r] = @ + 1]
            /\ UNCHANGED <<gen_err, state, yielded, node, output, idx, pc>>
       ELSE /\ gen_err' = [gen_err EXCEPT ![r] = m]
            /\ Deliver(r, "writer", WriterFailure(m))
            /\ UNCHANGED llm_calls
    /\ UNCHANGED <<search_tool, llm, events, err, search_err, search_calls,
                   hung, writer_state, prompt>>

\* Mutant: writer_node without its try/except.
GenRaise_Escapes(r, m) ==
    /\ pc[r] = "gen_call" /\ ~hung[r]
    /\ gen_err' = [gen_err EXCEPT ![r] = m]
    /\ err' = [err EXCEPT ![r] = m]
    /\ pc' = [pc EXCEPT ![r] = "yield_error"]
    /\ UNCHANGED <<search_tool, llm, state, node, output, idx, events, search_err,
                   search_calls, llm_calls, hung, yielded, writer_state, prompt>>

GenRaise(r, m) ==
    /\ pc[r] = "gen_call" /\ ~hung[r]
    /\ gen_err' = [gen_err EXCEPT ![r] = m]
    /\ Deliver(r, "writer", WriterFailure(m))
    /\ UNCHANGED <<search_tool, llm, events, err, search_err, search_calls,
                   llm_calls, hung, writer_state, prompt>>

\* Mutant: the exhausted graph never ends the async for loop.
AstreamEnd_Spin(r) ==
    /\ pc[r] = "astream" /\ node[r] = "END"
    /\ UNCHANGED vars

\* The graph reached END: the async for loop is exhausted.
AstreamEnd(r) ==
    /\ pc[r] = "astream" /\ node[r] = "END"
    /\ pc' = [pc EXCEPT ![r] = "yield_done"]
    /\ UNCHANGED <<search_tool, llm, state, node, output, idx, events, err, search_err,
                   gen_err, search_calls, llm_calls, hung, yielded, writer_state, prompt>>

YieldLog(r) ==
    /\ pc[r] = "yield_log"
    /\ events' = [events EXCEPT ![r] = Append(@, LogEvent(output[r]["logs"][idx[r]]))]
    /\ pc' = [pc EXCEPT ![r] = "sleep"]
    /\ UNCHANGED <<search_tool, llm, state, node, output, idx, err, search_err,
                   gen_err, search_calls, llm_calls, hung, yielded, writer_state, prompt>>

\* Mutant: a hanging capability call blocks the event loop, so no sleep of
\* any run returns while it hangs.
Sleep_LoopBlocked(r) ==
    /\ pc[r] = "sleep"
    /\ \A o \in AllRuns : ~hung[o]
    /\ IF idx[r] < Len(output[r]["logs"])
       THEN /\ idx' = [idx EXCEPT ![r] = @ + 1]
            /\ pc' = [pc EXCEPT ![r] = "yield_log"]
       ELSE /\ idx' = idx
            /\ pc' = [pc EXCEPT ![r] = AfterLogs(output[r])]
    /\ UNCHANGED <<search_tool, llm, state, node, output, events, err, search_err,
                   gen_err, search_calls, llm_calls, hung, yielded, writer_state, prompt>>

\* await asyncio.sleep(0.1) returns; the for loop continues or ends.
Sleep(r) ==
    /\ pc[r] = "sleep"
    /\ IF idx[r] < Len(output[r]["logs"])
       THEN /\ idx' = [idx EXCEPT ![r] = @ + 1]
            /\ pc' = [pc EXCEPT ![r] = "yield_log"]
       ELSE /\ idx' = idx
            /\ pc' = [pc EXCEPT ![r] = AfterLogs(output[r])]
    /\ UNCHANGED <<search_tool, llm, state, node, output, events, err, search_err,
                   gen_err, search_calls, llm_calls, hung, yielded, writer_state, prompt>>

YieldReport(r) ==
    /\ pc[r] = "yield_report"
    /\ events' = [events EXCEPT ![r] = Append(@, ReportEvent(output[r]["final_report"]))]
    /\ pc' = [pc EXCEPT ![r] = "astream"]
    /\ UNCHANGED <<search_tool, llm, state, node, output, idx, err, search_err,
                   gen_err, search_calls, llm_calls, hung, yielded, writer_state, prompt>>

\* Mutant: the sentinel is yielded from a finally block, also when the
\* generator is being closed.
YieldDone_Finally(r) ==
    /\ pc[r] \in {"yield_done", "closed"}
    /\ CountType(events[r], "[DONE]") = 0
    /\ events' = [events EXCEPT ![r] = Append(@, DoneEvent)]
    /\ pc' = [pc EXCEPT ![r] = IF pc[r] = "closed" THEN "closed" ELSE "done"]
    /\ UNCHANGED <<search_tool, llm, state, node, output, idx, err, search_err,
                   gen_err, search_calls, llm_calls, hung, yielded, writer_state, prompt>>

YieldDone(r) ==
    /\ pc[r] = "yield_done"
    /\ events' = [events EXCEPT ![r] = Append(@, DoneEvent)]
    /\ pc' = [pc EXCEPT ![r] = "done"]
    /\ UNCHANGED <<search_tool, llm, state, node, output, idx, err, search_err,
                   gen_err, search_calls, llm_calls, hung, yielded, writer_state, prompt>>

\* Mutant: the try/except sits inside the loop, which goes on after the error.
AstreamRaise_Continue(r, m) ==
    /\ pc[r] \in {"astream", "search_call", "gen_call"} /\ ~hung[r]
    /\ err' = [err EXCEPT ![r] = m]
    /\ UNCHANGED <<search_tool, llm, pc, state, node, output, idx, events, search_err,
                   gen_err, search_calls, llm_calls, hung, yielded, writer_state, prompt>>

\* An exception surfaces from the pull of app_graph.astream and is caught by
\* `except Exception as e`.
AstreamRaise(r, m) ==
    /\ pc[r] \in {"astream", "search_call", "gen_call"} /\ ~hung[r]
    /\ err' = [err EXCEPT ![r] = m]
    /\ pc' = [pc EXCEPT ![r] = "yield_error"]
    /\ UNCHANGED <<search_tool, llm, state, node, output, idx, events, search_err,
                   gen_err, search_calls, llm_calls, hung, yielded, writer_state, prompt>>

\* Mutant: the sentinel is yielded inside the try block, so the handler's
\* path finishes the generator without it.
YieldError_NoDone(r) ==
    /\ pc[r] = "yield_error"
    /\ events' = [events EXCEPT ![r] = Append(@, LogEvent("System Error: " \o err[r]))]
    /\ pc' = [pc EXCEPT ![r] = "done"]
    /\ UNCHANGED <<search_tool, llm, state, node, output, idx, err, search_err,
                   gen_err, search_calls, llm_calls, hung, yielded, writer_state, prompt>>

YieldError(r) ==
    /\ pc[r] = "yield_error"
    /\ events' = [events EXCEPT ![r] = Append(@, LogEvent("System Error: " \o err[r]))]
    /\ pc' = [pc EXCEPT ![r] = "yield_done"]
    /\ UNCHANGED <<search_tool, llm, state, node, output, idx, err, search_err,
                   gen_err, search_calls, llm_calls, hung, yielded, writer_state, prompt>>

\* The client disconnects: StreamingResponse closes the generator at its
\* current suspension point (GeneratorExit / CancelledError, no Exception).
Disconnect(r) ==
    /\ pc[r] \notin {"idle", "done", "closed"}
    /\ pc' = [pc EXCEPT ![r] = "closed"]
    /\ UNCHANGED <<search_tool, llm, state, node, output, idx, events, err, search_err,
                   gen_err, search_calls, llm_calls, hung, yielded, writer_state, prompt>>

\* The pending capability call is one that never returns (no timeout is set).
Hang(r) ==
    /\ pc[r] \in {"search_call", "gen_call"} /\ ~hung[r]
    /\ hung' = [hung EXCEPT ![r] = TRUE]
    /\ UNCHANGED <<search_tool, llm, pc, state, node, output, idx, events, err,
                   search_err, gen_err, search_calls, llm_calls, yielded,
                   writer_state, prompt>>

\* ---------------------------------------------------------------- specifications
Next ==
    \/ \E r \in Runs, t \in Topics : Request(r, t)
    \/ \E r \in Runs : ResearchStart(r)
    \/ \E r \in Runs, res \in SearchResults : SearchReturn(r, res)
    \/ \E r \in Runs, m \in SearchErrs : SearchRaise(r, m)
    \/ \E r \in Runs : WriterStart(r)
    \/ \E r \in Runs, text \in GenTexts : GenReturn(r, text)
    \/ \E r \in Runs, m \in GenErrs : GenRaise(r, m)
    \/ \E r \in Runs : AstreamEnd(r)
    \/ \E r \in Runs : YieldLog(r)
    \/ \E r \in Runs : Sleep(r)
    \/ \E r \in Runs : YieldReport(r)
    \/ \E r \in Runs : YieldDone(r)
    \/ \E r \in Runs : Disconnect(r)
    \/ \E r \in Runs : Hang(r)

\* The pipeline with provider failures only.
Spec == Init /\ [][Next]_vars

\* The pipeline when the pull of the graph may also raise.
NextFault ==
    \/ Next
    \/ \E r \in Runs, m \in FaultMsgs : AstreamRaise(r, m)
    \/ \E r \in Runs : YieldError(r)

SpecFault == Init /\ [][NextFault]_vars

\* The steps of run r that the event loop, a consuming client and a
\* capability call that answers take on their own.  An exception from the
\* pull, a disconnection and a hanging call are possible, never owed.
Progress(r) ==
    \/ ResearchStart(r)
    \/ \E res \in SearchResults : SearchReturn(r, res)
    \/ \E m \in SearchErrs : SearchRaise(r, m)
    \/ WriterStart(r)
    \/ \E text \in GenTexts : GenReturn(r, text)
    \/ \E m \in GenErrs : GenRaise(r, m)
    \/ AstreamEnd(r)
    \/ YieldLog(r)
    \/ Sleep(r)
    \/ YieldReport(r)
    \/ YieldDone(r)
    \/ YieldError(r)

LiveSpecFault == SpecFault /\ \A r \in Runs : WF_vars(Progress(r))

\* The pipeline with provider failures only, fairly scheduled.
LiveSpec == Spec /\ \A r \in Runs : WF_vars(Progress(r))

\* ---------------------------------------------------------------- event sequences
Rank(e) == IF e.type = "log" THEN 0 ELSE IF e.type = "report" THEN 1 ELSE 2

\* Logs, then reports, then the sentinel; at most one report and one sentinel.
Ordered(ev) ==
    /\ \A i, j \in 1..Len(ev) : i < j => Rank(ev[i]) <= Rank(ev[j])
    /\ CountType(ev, "report") <= 1
    /\ CountType(ev, "[DONE]") <= 1

\* >= 1 Log, then exactly one Report, then exactly one Done, nothing else.
LogsReportDone(ev) ==
    /\ Len(ev) >= 3
    /\ \A i \in 1..(Len(ev) - 2) : ev[i].type = "log"
    /\ ev[Len(ev) - 1].type = "report"
    /\ ev[Len(ev)].type = "[DONE]"

DoneIsLast(ev) == \A i \in 1..Len(ev) : ev[i].type = "[DONE]" => i = Len(ev)

BothAvailable == search_tool = "Tavily" /\ llm = "Groq"

\* ---------------------------------------------------------------- C1
\* C1 as stated: with both capabilities available, whatever they return
\* (an empty generated text included), a finished run has emitted >= 1 Log,
\* then exactly one Report, then exactly one Done, and nothing after Done.
C1_AnyTextLogsReportDone ==
    \A r \in Runs :
        BothAvailable =>
            /\ DoneIsLast(events[r])
            /\ pc[r] = "done" => LogsReportDone(events[r])

\* C1 as amended: with both capabilities available, the events of a run are
\* always Logs, then at most one Report, then at most one Done with nothing
\* after it; and a finished run whose generation call raised or returned a
\* non-empty text has emitted >= 1 Log, exactly one Report, exactly one Done.
C1_NonEmptyTextLogsReportDone ==
    \A r \in Runs :
        BothAvailable =>
            /\ Ordered(events[r])
            /\ DoneIsLast(events[r])
            /\ (pc[r] = "done" /\ state[r].final_report # "") => LogsReportDone(events[r])

C1_Witness ==
    \E r \in Runs :
        /\ BothAvailable /\ pc[r] = "done"
        /\ gen_err[r] = NoErr /\ state[r].final_report = "## Report"
        /\ Len(events[r]) = 6

\* ---------------------------------------------------------------- C2
\* C2: whether the update sequence is exhausted normally or ends through an
\* exception caught by the adapter, the stream never holds more than one Done,
\* Done is its last event, and a finished generator has emitted exactly one.
C2_ExactlyOneDoneLast ==
    \A r \in Runs :
        /\ CountType(events[r], "[DONE]") <= 1
        /\ DoneIsLast(events[r])
        /\ pc[r] = "done" => CountType(events[r], "[DONE]") = 1
        /\ pc[r] \notin {"done", "closed"} => CountType(events[r], "[DONE]") = 0

C2_Witness ==
    \E r \in Runs :
        /\ pc[r] = "done" /\ err[r] # NoErr
        /\ yielded[r] = <<"researcher">>
        /\ events[r][Len(events[r])] = DoneEvent

\* ---------------------------------------------------------------- C3
\* C3: a started run whose client stays connected and whose capability calls
\* answer eventually emits Done, whatever the capabilities' availability,
\* whether their calls fail, and whether the pull of the graph raises.
C3_EventuallyDone ==
    \A r \in Runs :
        (pc[r] # "idle") ~>
            \/ pc[r] = "closed"
            \/ hung[r]
            \/ /\ pc[r] = "done"
               /\ Len(events[r]) > 0
               /\ events[r][Len(events[r])] = DoneEvent

C3_Witness ==
    \E r \in Runs :
        /\ pc[r] = "done" /\ llm = "None" /\ search_err[r] # NoErr
        /\ events[r][Len(events[r])] = DoneEvent

Last(ev) == ev[Len(ev)]

IsSystemError(e) ==
    /\ e.type = "log"
    /\ \E m \in FaultMsgs \cup SearchErrs \cup GenErrs : e.content = "System Error: " \o m

SystemErrors(ev) == {i \in 1..Len(ev) : IsSystemError(ev[i])}

\* ---------------------------------------------------------------- C4
C4_Safe ==
    search_tool = "None" =>
        \A r \in Runs :
            /\ search_calls[r] = 0
            /\ search_err[r] = NoErr
            /\ node[r] # "researcher" => state[r].search_data = "No search data (tool failure)"
            /\ yielded[r] = <<"researcher">> =>
                   /\ Len(output[r].logs) = 1
                   /\ output[r].logs = <<SearchUnavailableLog>>
                   /\ state[r].logs = <<SearchUnavailableLog>>
            /\ pc[r] = "done" =>
                   /\ yielded[r] = <<"researcher", "writer">>
                   /\ Len(state[r].logs) = 1 + Len(output[r].logs)
                   /\ events[r][1] = LogEvent(SearchUnavailableLog)
                   /\ Last(events[r]) = DoneEvent

\* C4: with search_tool None the Research stage never calls the tool, sets
\* search_data to "No search data (tool failure)" and contributes exactly one
\* (error) log entry; the run then executes the Synthesis stage and, with its
\* client connected and the generation call answering, reaches Done.
C4_SearchUnavailable ==
    /\ []C4_Safe
    /\ \A r \in Runs :
           (search_tool = "None" /\ pc[r] # "idle") ~>
               \/ pc[r] = "closed"
               \/ hung[r]
               \/ /\ pc[r] = "done"
                  /\ "writer" \in {yielded[r][i] : i \in 1..Len(yielded[r])}
                  /\ Last(events[r]) = DoneEvent

C4_Witness ==
    \E r \in Runs :
        /\ search_tool = "None" /\ llm = "Groq" /\ pc[r] = "done"
        /\ llm_calls[r] = 1
        /\ state[r].search_data = SearchUnavailableData

\* ---------------------------------------------------------------- C5
\* C5: with llm None the generation capability is invoked zero times,
\* final_report is the fixed misconfiguration message once the Synthesis stage
\* has run, and a finished run has delivered that message as its one Report
\* event, right before Done.
C5_LlmUnavailable ==
    llm = "None" =>
        \A r \in Runs :
            /\ llm_calls[r] = 0
            /\ prompt[r] = ""
            /\ node[r] = "END" => state[r].final_report = LlmUnavailableReport
            /\ pc[r] = "done" =>
                   /\ CountType(events[r], "report") = 1
                   /\ Len(events[r]) >= 2
                   /\ events[r][Len(events[r]) - 1] = ReportEvent(LlmUnavailableReport)
                   /\ Last(events[r]) = DoneEvent

C5_Witness ==
    \E r \in Runs :
        /\ llm = "None" /\ search_tool = "Tavily" /\ pc[r] = "done"
        /\ search_calls[r] = 1
        /\ state[r].final_report = LlmUnavailableReport

\* ---------------------------------------------------------------- C6
WriterRan(r) == llm_calls[r] > 0 \/ (\E i \in 1..Len(yielded[r]) : yielded[r][i] = "writer")

\* C6: when the search call raised with message m, search_data is
\* "Search Failed: " followed by m, the Synthesis stage is still executed
\* (a finished run yielded its update), and the state it is given - and the
\* prompt it builds from it - holds exactly that string as search_data.
C6_SearchFailureReachesWriter ==
    \A r \in Runs :
        search_err[r] # NoErr =>
            /\ state[r].search_data = "Search Failed: " \o search_err[r]
            /\ WriterRan(r) => writer_state[r].search_data = "Search Failed: " \o search_err[r]
            /\ llm_calls[r] > 0 =>
                   prompt[r] = Prompt(state[r].topic, "Search Failed: " \o search_err[r])
            /\ pc[r] = "done" => yielded[r] = <<"researcher", "writer">>

C6_Witness ==
    \E r \in Runs :
        /\ search_err[r] = "timeout" /\ pc[r] = "done" /\ llm_calls[r] = 1
        /\ writer_state[r].search_data = "Search Failed: timeout"

\* ---------------------------------------------------------------- C7
\* C7: with the search capability available the Research stage's update
\* carries exactly two log entries: the start-of-search log, then the
\* completion log if the call succeeded or an error log carrying the failure
\* message if it failed; no completion log for a failed search.
C7_ResearchLogs ==
    search_tool = "Tavily" =>
        \A r \in Runs :
            yielded[r] = <<"researcher">> =>
                /\ Len(output[r].logs) = 2
                /\ output[r].logs[1] = ResearchLogStart(state[r].topic)
                /\ IF search_err[r] = NoErr
                   THEN output[r].logs[2] = ResearchLogEnd
                   ELSE /\ output[r].logs[2] = "Search Error: " \o search_err[r]
                        /\ \A i \in 1..Len(output[r].logs) : output[r].logs[i] # ResearchLogEnd

\* ---------------------------------------------------------------- C8
\* C8: when the generation call raised with message m, no exception leaves
\* the Synthesis stage (the adapter's handler is not entered and the stage's
\* update is yielded), final_report is "LLM Call Failed: " followed by m, and a
\* finished run has delivered that string as its single Report event, right
\* before Done.
C8_GenFailureBecomesReport ==
    \A r \in Runs :
        gen_err[r] # NoErr =>
            /\ pc[r] # "yield_error" /\ err[r] = NoErr
            /\ yielded[r] = <<"researcher", "writer">>
            /\ state[r].final_report = "LLM Call Failed: " \o gen_err[r]
            /\ pc[r] = "done" =>
                   /\ CountType(events[r], "report") = 1
                   /\ events[r][Len(events[r]) - 1] =
                          ReportEvent("LLM Call Failed: " \o gen_err[r])
                   /\ Last(events[r]) = DoneEvent

C8_Witness ==
    \E r \in Runs :
        /\ gen_err[r] = "rate limit" /\ pc[r] = "done"
        /\ Len(events[r]) = 6
        /\ events[r][5] = ReportEvent("LLM Call Failed: rate limit")

\* ---------------------------------------------------------------- C9
ProviderFailure(r) ==
    \/ search_tool = "None" /\ yielded[r] # <<>>
    \/ llm = "None" /\ WriterRan(r)
    \/ search_err[r] # NoErr
    \/ gen_err[r] # NoErr

\* C9: a run in which a provider was unavailable or its call raised never
\* enters the adapter's exception handler and emits no "System Error: ..."
\* log; when it finishes, both stages have completed and exactly two stage
\* updates were yielded.
C9_ProviderFailureIsLocal ==
    \A r \in Runs :
        ProviderFailure(r) =>
            /\ pc[r] # "yield_error" /\ err[r] = NoErr
            /\ SystemErrors(events[r]) = {}
            /\ pc[r] = "done" =>
                   /\ yielded[r] = <<"researcher", "writer">>
                   /\ node[r] = "END"

C9_Witness ==
    \E r \in Runs :
        /\ search_err[r] # NoErr /\ gen_err[r] # NoErr /\ pc[r] = "done"
        /\ Len(yielded[r]) = 2

\* ---------------------------------------------------------------- C10
C10_Safe ==
    \A r \in Runs :
        /\ err[r] = NoErr => SystemErrors(events[r]) = {}
        /\ err[r] # NoErr =>
               /\ Cardinality(SystemErrors(events[r])) <= 1
               /\ pc[r] = "yield_done" =>
                      Last(events[r]) = LogEvent("System Error: " \o err[r])
               /\ pc[r] = "done" =>
                      /\ Cardinality(SystemErrors(events[r])) = 1
                      /\ events[r][Len(events[r]) - 1] = LogEvent("System Error: " \o err[r])
                      /\ Last(events[r]) = DoneEvent

\* Once the exception is caught, the only events still emitted are the error
\* log and then, right after it, Done.
C10_Step ==
    \A r \in Runs :
        err[r] # NoErr =>
            \/ events'[r] = events[r]
            \/ /\ pc[r] = "yield_error"
               /\ events'[r] = Append(events[r], LogEvent("System Error: " \o err[r]))
            \/ /\ Len(events[r]) > 0
               /\ Last(events[r]) = LogEvent("System Error: " \o err[r])
               /\ events'[r] = Append(events[r], DoneEvent)

\* C10: an exception raised inside the try block makes the adapter emit
\* exactly one log event carrying "System Error: " and the stringified error,
\* immediately followed by Done, and no event of a stage update that had not
\* been delivered yet is emitted afterwards.
C10_FaultEndsStream == []C10_Safe /\ [][C10_Step]_vars

C10_Witness ==
    \E r \in Runs :
        /\ err[r] = "graph fault" /\ pc[r] = "done"
        /\ yielded[r] = <<"researcher">>
        /\ Len(events[r]) = 4
        /\ events[r][3] = LogEvent("System Error: graph fault")

\* ---------------------------------------------------------------- C11
\* C11: the pacing delay is taken only between two consecutive Log emissions
\* of the same stage update: whenever the generator is in its delay, another
\* Log of the update it is handling is still to be emitted (so no delay
\* separates the last Log of an update from the Report or from Done).
C11_DelayOnlyBetweenLogs ==
    \A r \in Runs :
        pc[r] = "sleep" => idx[r] < Len(output[r].logs)

\* ---------------------------------------------------------------- C13
\* C13: once the client has disconnected (the generator is closed), no
\* further event of any type is emitted by that run.
C13_NoEventAfterDisconnect ==
    [][\A r \in Runs : pc[r] = "closed" => events'[r] = events[r] /\ pc'[r] = "closed"]_vars

C13_Witness ==
    \E r \in Runs :
        /\ pc[r] = "closed"
        /\ Len(events[r]) = 1
        /\ events[r][1].type = "log"
        /\ node[r] = "writer"

\* ---------------------------------------------------------------- C14
LogContents(ev) ==
    LET logs == SelectSeq(ev, LAMBDA e : e.type = "log")
    IN  [i \in 1..Len(logs) |-> logs[i].content]

IsPrefix(a, b) == Len(a) <= Len(b) /\ \A i \in 1..Len(a) : a[i] = b[i]

\* C14: in a run without an exception caught by the adapter, the Log events
\* delivered so far are always a prefix of the run's cumulative logs, and
\* when the run has finished they are exactly the cumulative logs: each entry
\* once, the Research stage's before the Synthesis stage's, in array order.
C14_LogEventsAreCumulativeLogs ==
    \A r \in Runs :
        err[r] = NoErr =>
            /\ IsPrefix(LogContents(events[r]), state[r].logs)
            /\ pc[r] = "done" =>
                   /\ LogContents(events[r]) = state[r].logs
                   /\ state[r].logs = writer_state[r].logs \o output[r].logs

C14_Witness ==
    \E r \in Runs :
        /\ err[r] = NoErr /\ pc[r] = "done"
        /\ Len(state[r].logs) = 4
        /\ LogContents(events[r]) = state[r].logs
        /\ state[r].logs[1] # state[r].logs[3]

\* ---------------------------------------------------------------- C16
Count(seq, x) == Cardinality({i \in 1..Len(seq) : seq[i] = x})

\* C16: the Synthesis stage starts (and llm.ainvoke is called) only after
\* the Research stage has returned and its update has been merged into the
\* state the Synthesis stage is given, and once the Synthesis stage has
\* started the Research stage is neither running nor run again.
C16_StagesSequential ==
    \A r \in Runs :
        /\ WriterRan(r) =>
               /\ Len(yielded[r]) >= 1 /\ yielded[r][1] = "researcher"
               /\ Count(yielded[r], "researcher") = 1
               /\ node[r] # "researcher"
               /\ pc[r] # "search_call"
               /\ writer_state[r].search_data # ""
               /\ writer_state[r].logs # <<>>
               /\ IsPrefix(writer_state[r].logs, state[r].logs)
        /\ pc[r] = "search_call" => llm_calls[r] = 0 /\ yielded[r] = <<>>

C16_Witness ==
    \E r \in Runs :
        /\ pc[r] = "gen_call" /\ llm_calls[r] = 1 /\ search_calls[r] = 1
        /\ yielded[r] = <<"researcher">>
        /\ writer_state[r].search_data = state[r].search_data

\* ---------------------------------------------------------------- C17
\* C17: each stage executes at most once per run, the Research stage's
\* update is yielded before the Synthesis stage's, and a finished run without
\* an exception caught by the adapter has yielded exactly these two updates.
C17_TwoUpdates ==
    \A r \in Runs :
        /\ IsPrefix(yielded[r], <<"researcher", "writer">>)
        /\ (pc[r] = "done" /\ err[r] = NoErr) => yielded[r] = <<"researcher", "writer">>

C17_Witness ==
    \E r \in Runs :
        /\ pc[r] = "done" /\ err[r] = NoErr /\ BothAvailable
        /\ yielded[r] = <<"researcher", "writer">>
        /\ search_err[r] = NoErr /\ gen_err[r] = NoErr

\* ---------------------------------------------------------------- C18
Reports(ev) == {i \in 1..Len(ev) : ev[i].type = "report"}

\* The Synthesis stage's update has been handled completely.
WriterHandled(r) ==
    node[r] = "END" /\ pc[r] \in {"astream", "yield_error", "yield_done", "done"}

\* C18: a Report event is emitted for an update if and only if the update
\* carries a non-empty final_report: a run emits at most one Report, never
\* while the Research stage's update is the one handled, only after all Log
\* events of the Synthesis stage's update, and once that update is handled
\* the Report is there exactly when its final_report is non-empty.
C18_ReportIffNonEmpty ==
    \A r \in Runs :
        /\ Cardinality(Reports(events[r])) <= 1
        /\ \A i \in Reports(events[r]) :
               /\ Count(yielded[r], "writer") = 1
               /\ "final_report" \in DOMAIN output[r]
               /\ output[r].final_report # ""
               /\ events[r][i].content = output[r].final_report
               /\ LogContents(SubSeq(events[r], 1, i - 1)) = state[r].logs
               /\ i > Len(output[r].logs)
               /\ \A j \in 1..Len(output[r].logs) :
                      events[r][i - Len(output[r].logs) + j - 1] = LogEvent(output[r].logs[j])
        /\ WriterHandled(r) =>
               (Reports(events[r]) # {} <=> state[r].final_report # "")

C18_Witness ==
    \E r \in Runs :
        /\ WriterHandled(r) /\ pc[r] = "done"
        /\ state[r].final_report = "## Report"
        /\ Reports(events[r]) = {5}

\* ---------------------------------------------------------------- C19
\* C19: in every run the search capability is invoked at most once and the
\* generation capability at most once, also when the call raised.
C19_NoRetry ==
    \A r \in Runs :
        /\ search_calls[r] <= 1
        /\ llm_calls[r] <= 1
        /\ search_err[r] # NoErr => search_calls[r] = 1 /\ pc[r] # "search_call"
        /\ gen_err[r] # NoErr => llm_calls[r] = 1 /\ pc[r] # "gen_call"

C19_Witness ==
    \E r \in Runs :
        /\ search_err[r] # NoErr /\ gen_err[r] # NoErr /\ pc[r] = "done"
        /\ search_calls[r] = 1 /\ llm_calls[r] = 1

\* ---------------------------------------------------------------- C15
\* The merge of AgentState applied to arbitrary states and updates.
MergeLogs == {<<>>, <<"l1">>}
MergeStates ==
    [topic : Topics, logs : {<<>>, <<"l0">>}, search_data : {"", "S0"},
     final_report : {"", "R0"}]
MergeUpdates ==
    {[logs |-> l] : l \in MergeLogs}
    \cup {[logs |-> l, search_data |-> d] : l \in MergeLogs, d \in {"", "S1"}}
    \cup {[logs |-> l, final_report |-> f] : l \in MergeLogs, f \in {"", "R1"}}
    \cup {[search_data |-> d] : d \in {"", "S1"}}
    \cup {[final_report |-> f] : f \in {"", "R1"}}

MergesDone == Cardinality({<<r, i>> \in Runs \X (1..MaxMerges) : i <= Len(yielded[r])})

InitMerge ==
    /\ search_tool = "None"
    /\ llm = "None"
    /\ pc = [r \in AllRuns |-> "merge"]
    /\ state \in {[r \in AllRuns |-> s0] : s0 \in MergeStates}
    /\ node = [r \in AllRuns |-> "researcher"]
    /\ output = [r \in AllRuns |-> NoUpdate]
    /\ idx = [r \in AllRuns |-> 1]
    /\ events = [r \in AllRuns |-> <<>>]
    /\ err = [r \in AllRuns |-> NoErr]
    /\ search_err = [r \in AllRuns |-> NoErr]
    /\ gen_err = [r \in AllRuns |-> NoErr]
    /\ search_calls = [r \in AllRuns |-> 0]
    /\ llm_calls = [r \in AllRuns |-> 0]
    /\ hung = [r \in AllRuns |-> FALSE]
    /\ yielded = [r \in AllRuns |-> <<>>]
    /\ writer_state = [r \in AllRuns |-> Inputs("")]
    /\ prompt = [r \in AllRuns |-> ""]

ApplyMerge(r, u) ==
    /\ pc[r] = "merge"
    /\ MergesDone < MaxMerges
    /\ state' = [state EXCEPT ![r] = Merge(@, u)]
    /\ output' = [output EXCEPT ![r] = u]
    /\ yielded' = [yielded EXCEPT ![r] = Append(@, "merge")]
    /\ UNCHANGED <<search_tool, llm, pc, node, idx, events, err, search_err, gen_err,
                   search_calls, llm_calls, hung, writer_state, prompt>>

NextMerge == \E r \in Runs, u \in MergeUpdates : ApplyMerge(r, u)

SpecMerge == InitMerge /\ [][NextMerge]_vars

\* t is s with update u merged additively.
Additive(s, u, t) ==
    /\ DOMAIN t = DOMAIN s
    /\ t.logs = (IF "logs" \in DOMAIN u THEN s.logs \o u.logs ELSE s.logs)
    /\ ("logs" \in DOMAIN u /\ u.logs = <<>>) => Len(t.logs) = Len(s.logs)
    /\ \A k \in DOMAIN s \ {"logs"} : t[k] = (IF k \in DOMAIN u THEN u[k] ELSE s[k])
    /\ ("final_report" \in DOMAIN u /\ "search_data" \notin DOMAIN u) =>
           /\ t.topic = s.topic
           /\ t.search_data = s.search_data

\* C15: merging an update appends its logs to the existing logs (empty logs
\* leave their length unchanged), replaces only the fields the update
\* carries and leaves every other field unchanged; merging an update that
\* carries final_report and no search_data keeps topic and search_data.
C15_MergeAdditive ==
    [][\A r \in Runs :
          yielded'[r] # yielded[r] => Additive(state[r], output'[r], state'[r])]_vars

C15_Witness ==
    \E r \in Runs :
        /\ yielded[r] = <<"merge">>
        /\ output[r] = [logs |-> <<>>, final_report |-> "R1"]
        /\ state[r].logs = <<"l0">>
        /\ state[r].search_data = "S0"
        /\ state[r].final_report = "R1"

\* ---------------------------------------------------------------- concurrent runs
\* Several requests served by the same event loop, interleaved at their
\* suspension points.
NextConc ==
    \/ \E r \in ConcSet, t \in Topics : Request(r, t)
    \/ \E r \in ConcSet : ResearchStart(r)
    \/ \E r \in ConcSet, res \in SearchResults : SearchReturn(r, res)
    \/ \E r \in ConcSet, m \in SearchErrs : SearchRaise(r, m)
    \/ \E r \in ConcSet : WriterStart(r)
    \/ \E r \in ConcSet, text \in GenTexts : GenReturn(r, text)
    \/ \E r \in ConcSet, m \in GenErrs : GenRaise(r, m)
    \/ \E r \in ConcSet : AstreamEnd(r)
    \/ \E r \in ConcSet : YieldLog(r)
    \/ \E r \in ConcSet : Sleep(r)
    \/ \E r \in ConcSet : YieldReport(r)
    \/ \E r \in ConcSet : YieldDone(r)
    \/ \E r \in ConcSet : Disconnect(r)
    \/ \E r \in ConcSet : Hang(r)

SpecConc == Init /\ [][NextConc]_vars

LiveSpecConc == SpecConc /\ \A r \in ConcSet : WF_vars(Progress(r))

\* ---------------------------------------------------------------- C12
\* C12: with runs interleaved at their suspension points, the state given
\* to the Synthesis stage of a run (and the prompt built from it) holds as
\* search_data exactly what the Research stage's update of that same run
\* set, and that run's own topic.
C12_WriterReadsOwnSearchData ==
    \A r \in ConcSet :
        WriterRan(r) =>
            /\ writer_state[r].topic = state[r].topic
            /\ writer_state[r].search_data = state[r].search_data
            /\ yielded[r] = <<"researcher">> =>
                   writer_state[r].search_data = output[r].search_data
            /\ llm_calls[r] > 0 =>
                   prompt[r] = Prompt(state[r].topic, state[r].search_data)
            /\ IF search_tool = "None"
               THEN writer_state[r].search_data = SearchUnavailableData
               ELSE IF search_err[r] # NoErr
               THEN writer_state[r].search_data = "Search Failed: " \o search_err[r]
               ELSE \E res \in SearchResults : writer_state[r].search_data = JsonDumps(res)

C12_Witness ==
    \E r1, r2 \in ConcSet :
        /\ r1 # r2
        /\ pc[r1] = "gen_call" /\ pc[r2] = "gen_call"
        /\ search_err[r1] = NoErr /\ search_err[r2] # NoErr
        /\ writer_state[r1].search_data # writer_state[r2].search_data
        /\ writer_state[r1].topic # writer_state[r2].topic

\* ---------------------------------------------------------------- C20
\* C20: with concurrent runs, fairly scheduled, a started run of which
\* another run's capability call hangs forever still emits all its events
\* and reaches Done, unless its own client disconnects or its own call hangs.
C20_HangStallsOwnRunOnly ==
    \A r \in ConcSet :
        (pc[r] # "idle" /\ \E o \in ConcSet \ {r} : hung[o]) ~>
            \/ pc[r] = "closed"
            \/ hung[r]
            \/ /\ pc[r] = "done"
               /\ LogContents(events[r]) = state[r].logs
               /\ Last(events[r]) = DoneEvent

C20_Witness ==
    \E r, o \in ConcSet :
        /\ r # o
        /\ hung[o] /\ pc[o] = "search_call" /\ events[o] = <<>>
        /\ ~hung[r] /\ pc[r] = "done"
        /\ Len(events[r]) = 6
        /\ Last(events[r]) = DoneEvent

====
